---- MODULE Spec2Model ----
(***************************************************************************)
(* Ingestion pipeline and retrieval engine of the file-based multimodal    *)
(* RAG project: RetrievalEngine (add_documents / query / clear) over one   *)
(* persisted Chroma collection, IngestionEngine.process_folder, and the    *)
(* "Ingest Files" handler of the Streamlit front end.                      *)
(*                                                                         *)
(* Two generations of the code live side by side in the repository:        *)
(*   "services" : src/services/*.py driven by src/ui/streamlit_app.py      *)
(*   "legacy"   : src/ingestion.py, src/retrieval.py driven by src/app.py  *)
(* The variable `variant` fixes which generation a behaviour runs.         *)
(*                                                                         *)
(* Texts are sequences of characters over letters and the blank.          *)
(* Distances are L2 distances in tenths (12 stands for 1.2).  What the     *)
(* libraries make of a file (decoding, PDF pages, OCR, vision, Word       *)
(* loaders) is part of the file: see FileWith.                             *)
(***************************************************************************)
EXTENDS Integers, Sequences, FiniteSets, TLC

VARIABLES variant,       \* which generation of the code runs
          vector_store,  \* RetrievalEngine.vector_store: the Chroma handle
          collection,    \* persisted entries of "rag_collection", in insertion order
          lastOp,        \* the call that just ended and how it ended
          lastResult     \* the list that call returned

vars == <<variant, vector_store, collection, lastOp, lastResult>>

----------------------------------------------------------------------------
(* Bounds of the model *)

MaxEntries == 3      \* entries a collection holds at most
MaxBatch   == 2      \* documents in one direct add_documents call
MaxTopK    == 3      \* largest top_k asked for
MaxFiles   == 3      \* files in one folder
MaxUploads == 2      \* files in one upload
chunk_size    == 3   \* IngestionEngine(chunk_size=...): characters per chunk
chunk_overlap == 1   \* IngestionEngine(chunk_overlap=...): characters shared

----------------------------------------------------------------------------
(* Program constants *)

DefaultThreshold == 12       \* score_threshold: float = 1.2
UiTopK           == 5        \* retrieval.query(query, top_k=5)

CollectionName     == "rag_collection"
EmbeddingModelName == "all-MiniLM-L6-v2"
DATA_FOLDER        == "rag_data_source"

Variants == {"services", "legacy"}

----------------------------------------------------------------------------
(* Texts and the embedding space *)

CharCode(c) ==
    CASE c = "a" -> 1
      [] c = "b" -> 4
      [] c = " " -> 2
      [] OTHER -> 5

RECURSIVE SumCodes(_)
SumCodes(text) ==
    IF text = <<>> THEN 0 ELSE CharCode(Head(text)) + SumCodes(Tail(text))

\* HuggingFaceEmbeddings: one fixed model maps a text to a point of the
\* embedding space (here a point on a line).
Embedding(text) == 3 * SumCodes(text)

Abs(n) == IF n < 0 THEN -n ELSE n

\* L2 distance between the embedded query and an embedded entry.
Distance(query_text, doc) == Abs(Embedding(query_text) - Embedding(doc.page_content))

----------------------------------------------------------------------------
(* Documents *)

NoPage == -1
NoHash == -1
NoType == "absent"

Doc(content, source, type, page, hash) ==
    [page_content |-> content,
     metadata |-> [source |-> source, type |-> type, page |-> page, file_hash |-> hash]]

RECURSIVE SeqsUpTo(_, _)
SeqsUpTo(S, n) ==
    IF n = 0 THEN {<<>>}
    ELSE LET shorter == SeqsUpTo(S, n - 1)
         IN  shorter \cup {Append(s, x) : s \in {t \in shorter : Len(t) = n - 1}, x \in S}

QueryTexts == {<<>>, <<"a">>}
TopKs      == 1..MaxTopK
Thresholds == {DefaultThreshold, 15}

----------------------------------------------------------------------------
(* The Chroma handle and the persisted collection *)

BoundStore(name, embedding) ==
    [bound |-> TRUE, collection_name |-> name, embedding_function |-> embedding]

\* Chroma.delete_collection(): drops the persisted collection and leaves the
\* handle without a collection; fails on a handle that has none, or when the
\* backing store fails.
delete_collection(vs, coll, fault) ==
    IF ~vs.bound \/ fault = "delete"
    THEN [raised |-> TRUE, vs |-> vs, coll |-> coll, writes |-> 0]
    ELSE [raised |-> FALSE, vs |-> [vs EXCEPT !.bound = FALSE], coll |-> <<>>, writes |-> 1]

\* Chroma(collection_name=..., embedding_function=..., persist_directory=...):
\* get-or-create of the named collection; the entries already persisted under
\* that name stay.
Chroma(name, embedding, fault) ==
    IF fault = "create"
    THEN [raised |-> TRUE, vs |-> BoundStore(name, embedding), writes |-> 0]
    ELSE [raised |-> FALSE, vs |-> BoundStore(name, embedding), writes |-> 1]

\* a store that replaces the entries instead of appending to them
store_add_documents_replace(vs, coll, documents, fault, written) ==
    IF ~vs.bound
    THEN [raised |-> TRUE, coll |-> coll, writes |-> 0]
    ELSE [raised |-> FALSE, coll |-> documents, writes |-> 1]

\* Chroma.add_documents(documents): embeds, then writes.  A failure of the
\* backing store may leave the first `written` documents of the batch behind.
Prefix(documents, n) == SubSeq(documents, 1, IF n < Len(documents) THEN n ELSE Len(documents))

store_add_documents(vs, coll, documents, fault, written) ==
    IF ~vs.bound
    THEN [raised |-> TRUE, coll |-> coll, writes |-> 0]
    ELSE IF fault = "add"
         THEN [raised |-> TRUE, coll |-> coll \o Prefix(documents, written), writes |-> 1]
         ELSE [raised |-> FALSE, coll |-> coll \o documents, writes |-> 1]

Remove(s, i) == SubSeq(s, 1, i - 1) \o SubSeq(s, i + 1, Len(s))

\* Position of the entry nearest to the query (the earliest one among ties).
NearestIndex(coll, query_text) ==
    CHOOSE i \in DOMAIN coll :
        \A j \in DOMAIN coll :
            \/ Distance(query_text, coll[i]) < Distance(query_text, coll[j])
            \/ Distance(query_text, coll[i]) = Distance(query_text, coll[j]) /\ i <= j

\* Chroma.similarity_search_with_score(query_text, k): the k nearest entries
\* as (doc, score) pairs, nearest first.
RECURSIVE similarity_search_with_score(_, _, _)
similarity_search_with_score(coll, query_text, k) ==
    IF k = 0 \/ coll = <<>> THEN <<>>
    ELSE LET i == NearestIndex(coll, query_text)
         IN  <<[doc |-> coll[i], score |-> Distance(query_text, coll[i])]>>
             \o similarity_search_with_score(Remove(coll, i), query_text, k - 1)

\* Chroma.similarity_search(query_text, k): the same, without the scores.
similarity_search(coll, query_text, k) ==
    LET scored == similarity_search_with_score(coll, query_text, k)
    IN  [i \in DOMAIN scored |-> scored[i].doc]

----------------------------------------------------------------------------
(* RetrievalEngine *)

\* a threshold test that lets the boundary through
PassesThreshold_inclusive(score, score_threshold) == score <= score_threshold

\* if score < score_threshold: valid_docs.append(doc)
PassesThreshold(score, score_threshold) == score < score_threshold

\* a loop that puts each kept document in front of the earlier ones
RECURSIVE valid_docs_prepend(_, _)
valid_docs_prepend(results_with_scores, score_threshold) ==
    IF results_with_scores = <<>> THEN <<>>
    ELSE LET r == Head(results_with_scores)
             rest == valid_docs_prepend(Tail(results_with_scores), score_threshold)
         IN  IF PassesThreshold(r.score, score_threshold) THEN rest \o <<r.doc>> ELSE rest

\* the loop of query over results_with_scores
RECURSIVE valid_docs(_, _)
valid_docs(results_with_scores, score_threshold) ==
    IF results_with_scores = <<>> THEN <<>>
    ELSE LET r == Head(results_with_scores)
             rest == valid_docs(Tail(results_with_scores), score_threshold)
         IN  IF PassesThreshold(r.score, score_threshold) THEN <<r.doc>> \o rest ELSE rest

\* a query that treats "nothing passed the threshold" as an error
query_services_raise_if_empty(vs, coll, query_text, top_k, score_threshold) ==
    IF ~vs.bound
    THEN [raised |-> TRUE, docs |-> <<>>]
    ELSE LET results_with_scores == similarity_search_with_score(coll, query_text, top_k)
             valid == valid_docs(results_with_scores, score_threshold)
         IN  IF valid = <<>>
             THEN [raised |-> TRUE, docs |-> <<>>]
             ELSE [raised |-> FALSE, docs |-> valid]

\* RetrievalEngine.query of services/retrieval.py
query_services(vs, coll, query_text, top_k, score_threshold) ==
    IF ~vs.bound
    THEN [raised |-> TRUE, docs |-> <<>>]
    ELSE LET results_with_scores == similarity_search_with_score(coll, query_text, top_k)
             valid == valid_docs(results_with_scores, score_threshold)
         IN  IF valid = <<>>
             THEN [raised |-> FALSE, docs |-> <<>>]
             ELSE [raised |-> FALSE, docs |-> valid]

\* RetrievalEngine.query of retrieval.py (no threshold)
query_legacy(vs, coll, query_text, top_k) ==
    IF ~vs.bound
    THEN [raised |-> TRUE, docs |-> <<>>]
    ELSE [raised |-> FALSE, docs |-> similarity_search(coll, query_text, top_k)]

\* add_documents without the early return on an empty list
add_documents_effect_no_guard(vs, coll, documents, fault, written) ==
    store_add_documents(vs, coll, documents, fault, written)

\* RetrievalEngine.add_documents (the same in both generations)
add_documents_effect(vs, coll, documents, fault, written) ==
    IF documents = <<>>
    THEN [raised |-> FALSE, coll |-> coll, writes |-> 0]
    ELSE store_add_documents(vs, coll, documents, fault, written)

\* RetrievalEngine.clear of services/retrieval.py: every exception of the
\* two store calls is caught and logged, the call returns normally.
clear_services(vs, coll, fault) ==
    LET del == delete_collection(vs, coll, fault)
        new == Chroma(CollectionName, vs.embedding_function, fault)
    IN  IF del.raised
        THEN [raised |-> FALSE, error_logged |-> TRUE, vs |-> vs, coll |-> coll,
              writes |-> 0]
        ELSE IF new.raised
             THEN [raised |-> FALSE, error_logged |-> TRUE, vs |-> del.vs,
                   coll |-> del.coll, writes |-> del.writes]
             ELSE [raised |-> FALSE, error_logged |-> FALSE, vs |-> new.vs,
                   coll |-> del.coll, writes |-> del.writes + new.writes]

\* RetrievalEngine.clear of retrieval.py: no try, exceptions reach the caller.
clear_legacy(vs, coll, fault) ==
    LET del == delete_collection(vs, coll, fault)
        new == Chroma(CollectionName, vs.embedding_function, fault)
    IN  IF del.raised
        THEN [raised |-> TRUE, error_logged |-> FALSE, vs |-> vs, coll |-> coll,
              writes |-> 0]
        ELSE IF new.raised
             THEN [raised |-> TRUE, error_logged |-> FALSE, vs |-> del.vs,
                   coll |-> del.coll, writes |-> del.writes]
             ELSE [raised |-> FALSE, error_logged |-> FALSE, vs |-> new.vs,
                   coll |-> del.coll, writes |-> del.writes + new.writes]

\* a clear that deletes the collection and forgets to build the new handle
clear_effect_no_reinit(v, vs, coll, fault) ==
    LET del == delete_collection(vs, coll, fault)
    IN  [raised |-> del.raised /\ v = "legacy", error_logged |-> del.raised /\ v = "services",
         vs |-> del.vs, coll |-> del.coll, writes |-> del.writes]

clear_effect(v, vs, coll, fault) ==
    IF v = "services" THEN clear_services(vs, coll, fault) ELSE clear_legacy(vs, coll, fault)

----------------------------------------------------------------------------
(* Files on disk *)

\* A file: its base name, its suffix as written, the text its loader yields,
\* and whether an exception escapes while the file is handled inside the
\* try block of process_folder.
\* FileWith adds what the libraries make of the file: alt is the text the
\* second reader yields (latin-1 or cp1252 decoding, OCR, the unstructured
\* Word loader), pages the page texts PyPDFLoader yields, fails the library
\* calls that raise on this file ("GROQ_API_KEY" in fails: the key is not set).
FileWith(name, suffix, content, alt, pages, fails) ==
    [name |-> name, suffix |-> suffix, content |-> content, outcome |-> "ok",
     alt |-> alt, pages |-> pages, fails |-> fails]

File(name, suffix, content, outcome) ==
    [FileWith(name, suffix, content, content, <<content>>, {}) EXCEPT !.outcome = outcome]

FileMenu ==
    { File("a", ".txt", <<"a">>, "ok"),
      File("long", ".md", <<"a", "b", "a", "b">>, "ok"),
      File("notes", ".xml", <<"b">>, "ok"),
      File("broken", ".txt", <<"b", "b">>, "raises") }

Folders == {[exists |-> TRUE, files |-> fs] : fs \in SeqsUpTo(FileMenu, MaxFiles)}
               \cup {[exists |-> FALSE, files |-> <<>>]}

\* the data folder of tests/verify.py: missing, empty, or holding one file
ScriptFolders == {folder \in Folders : Len(folder.files) <= 1}

\* str.lower() on the suffixes that occur
Lower(suffix) ==
    CASE suffix = ".TXT" -> ".txt"
      [] suffix = ".DOCX" -> ".docx"
      [] suffix = ".PDF" -> ".pdf"
      [] suffix = ".PNG" -> ".png"
      [] OTHER -> suffix

TextSuffixes == {".md", ".txt", ".yaml", ".yml", ".json", ".csv", ".log"}
WordSuffixes == {".docx", ".doc"}
ImageSuffixes == {".png", ".jpg", ".jpeg", ".tiff", ".bmp"}

\* os.path.join(folder_path, file name)
FilePath(f) == <<DATA_FOLDER, f.name, f.suffix>>

\* os.path.basename(file_path)
Basename(f) == <<f.name, f.suffix>>

\* str.strip() for texts whose only whitespace is the blank
RECURSIVE LStrip(_)
LStrip(text) ==
    IF text # <<>> /\ Head(text) = " " THEN LStrip(Tail(text)) ELSE text

RECURSIVE RStrip(_)
RStrip(text) ==
    IF text # <<>> /\ text[Len(text)] = " " THEN RStrip(SubSeq(text, 1, Len(text) - 1))
    ELSE text

Strip(text) == RStrip(LStrip(text))


\* hashlib.md5(content.encode('utf-8')).hexdigest(), as a digest of the
\* characters of the content
RECURSIVE Digest(_, _)
Digest(content, acc) ==
    IF content = <<>> THEN acc
    ELSE Digest(Tail(content), (acc * 31 + CharCode(Head(content))) % 65536)

_compute_hash(content) == Digest(content, 7)

----------------------------------------------------------------------------
(* The extractors.  Each returns the documents it yields, whether an        *)
(* exception leaves it, and the library calls it made, in order.            *)

Returned(docs, trace) == [raised |-> FALSE, docs |-> docs, trace |-> trace]
Raised(trace) == [raised |-> TRUE, docs |-> <<>>, trace |-> trace]

\* the same list with the last two encodings swapped
Encodings_swapped == <<"utf-8", "cp1252", "latin-1">>

Encodings == <<"utf-8", "latin-1", "cp1252">>

TextLoader(enc) ==
    CASE enc = "utf-8" -> "TextLoader utf-8"
      [] enc = "latin-1" -> "TextLoader latin-1"
      [] enc = "cp1252" -> "TextLoader cp1252"

\* the text of the file read with one encoding
Decode(f, enc) == IF enc = "utf-8" THEN f.content ELSE f.alt

\* for enc in encodings: try: return TextLoader(file_path, encoding=enc).load()
\*                        except Exception: continue
\* return []
RECURSIVE text_loop(_, _, _)
text_loop(f, encodings, trace) ==
    IF encodings = <<>> THEN Returned(<<>>, trace)
    ELSE IF TextLoader(Head(encodings)) \in f.fails
         THEN text_loop(f, Tail(encodings), Append(trace, TextLoader(Head(encodings))))
         ELSE Returned(<<Doc(Decode(f, Head(encodings)), FilePath(f), NoType, NoPage, NoHash)>>,
                       Append(trace, TextLoader(Head(encodings))))

_process_text(f) == text_loop(f, Encodings, <<"_process_text">>)

\* services/ingestion.py: the whole file as one Markdown document
_process_pdf_services(f) ==
    IF "to_markdown" \in f.fails
    THEN Returned(<<>>, <<"_process_pdf", "to_markdown">>)
    ELSE Returned(<<Doc(f.content, Basename(f), "pdf_markdown", 0, NoHash)>>,
                  <<"_process_pdf", "to_markdown">>)

\* "\n--- Page {i+1} ---\n" of _pdf_ocr_fallback
PageMarker(i) ==
    CASE i = 1 -> <<"--- Page 1 ---">>
      [] i = 2 -> <<"--- Page 2 ---">>
      [] OTHER -> <<"--- Page n ---">>

\* for i, image in enumerate(images): full_text += marker + image_to_string(image)
RECURSIVE ocr_pages(_, _, _)
ocr_pages(f, i, full_text) ==
    IF i > Len(f.pages) THEN full_text
    ELSE ocr_pages(f, i + 1, full_text \o PageMarker(i) \o f.alt)

RECURSIVE Repeat(_, _)
Repeat(call, n) == IF n = 0 THEN <<>> ELSE <<call>> \o Repeat(call, n - 1)

\* ingestion.py: OCR of every page image into one scanned_pdf document
_pdf_ocr_fallback(f) ==
    IF "import pdf2image" \in f.fails
    THEN Returned(<<>>, <<"_pdf_ocr_fallback", "import pdf2image">>)
    ELSE IF "convert_from_path" \in f.fails
    THEN Returned(<<>>, <<"_pdf_ocr_fallback", "import pdf2image", "convert_from_path">>)
    ELSE IF "image_to_string" \in f.fails /\ f.pages # <<>>
    THEN Returned(<<>>, <<"_pdf_ocr_fallback", "import pdf2image", "convert_from_path",
                         "image_to_string">>)
    ELSE Returned(<<Doc(ocr_pages(f, 1, <<>>), FilePath(f), "scanned_pdf", NoPage, NoHash)>>,
                  <<"_pdf_ocr_fallback", "import pdf2image", "convert_from_path">>
                      \o Repeat("image_to_string", Len(f.pages)))

\* PyPDFLoader(file_path).load(): one document per page
page_docs(f) ==
    [i \in 1..Len(f.pages) |-> Doc(f.pages[i], FilePath(f), NoType, i - 1, NoHash)]

\* sum(len(d.page_content.strip()) for d in docs)
RECURSIVE total_text_len(_)
total_text_len(docs) ==
    IF docs = <<>> THEN 0
    ELSE Len(Strip(Head(docs).page_content)) + total_text_len(Tail(docs))

OcrFloor == 50

\* the same extractor with the floor counted as scanned
_process_pdf_legacy_inclusive(f) ==
    IF "PyPDFLoader" \in f.fails
    THEN Returned(<<>>, <<"_process_pdf", "PyPDFLoader">>)
    ELSE IF total_text_len(page_docs(f)) <= OcrFloor
         THEN [_pdf_ocr_fallback(f) EXCEPT !.trace = <<"_process_pdf", "PyPDFLoader">> \o @]
         ELSE Returned(page_docs(f), <<"_process_pdf", "PyPDFLoader">>)

\* ingestion.py: the pages as read, or the OCR fallback for a scanned file
_process_pdf_legacy(f) ==
    IF "PyPDFLoader" \in f.fails
    THEN Returned(<<>>, <<"_process_pdf", "PyPDFLoader">>)
    ELSE IF total_text_len(page_docs(f)) < OcrFloor
         THEN [_pdf_ocr_fallback(f) EXCEPT !.trace = <<"_process_pdf", "PyPDFLoader">> \o @]
         ELSE Returned(page_docs(f), <<"_process_pdf", "PyPDFLoader">>)

\* f"[IMAGE SOURCE: {basename}]\nDescription: {description}"
image_description(f) ==
    <<"[IMAGE SOURCE: ">> \o Basename(f) \o <<"]", "Description: ">> \o f.content

\* the same extractor without its try/except
_process_image_services_no_try(f) ==
    IF "GROQ_API_KEY" \in f.fails THEN Returned(<<>>, <<"_process_image">>)
    ELSE IF "open" \in f.fails
    THEN Raised(<<"_process_image", "open">>)
    ELSE IF "chat.completions" \in f.fails
    THEN Raised(<<"_process_image", "open", "chat.completions">>)
    ELSE Returned(<<Doc(image_description(f), Basename(f), "image", 1, NoHash)>>,
                  <<"_process_image", "open", "chat.completions">>)

\* services/ingestion.py: the description the vision model gives of the image
_process_image_services(f) ==
    IF "GROQ_API_KEY" \in f.fails THEN Returned(<<>>, <<"_process_image">>)
    ELSE IF "open" \in f.fails
    THEN Returned(<<>>, <<"_process_image", "open">>)
    ELSE IF "chat.completions" \in f.fails
    THEN Returned(<<>>, <<"_process_image", "open", "chat.completions">>)
    ELSE Returned(<<Doc(image_description(f), Basename(f), "image", 1, NoHash)>>,
                  <<"_process_image", "open", "chat.completions">>)

\* f"--- IMAGE START: {basename} ---\n{text}\n--- IMAGE END ---"
image_text(f) ==
    <<"--- IMAGE START: ">> \o Basename(f) \o <<" ---">> \o f.alt \o <<"--- IMAGE END ---">>

\* ingestion.py: the text OCR reads off the image
_process_image_legacy(f) ==
    IF "Image.open" \in f.fails
    THEN Returned(<<>>, <<"_process_image", "Image.open">>)
    ELSE IF "image_to_string" \in f.fails
    THEN Returned(<<>>, <<"_process_image", "Image.open", "image_to_string">>)
    ELSE IF Strip(f.alt) = <<>>
    THEN Returned(<<>>, <<"_process_image", "Image.open", "image_to_string">>)
    ELSE Returned(<<Doc(image_text(f), FilePath(f), "image", NoPage, NoHash)>>,
                  <<"_process_image", "Image.open", "image_to_string">>)

\* both versions: Docx2txtLoader when the path ends in ".docx" as written,
\* UnstructuredWordDocumentLoader otherwise
_process_docx(f) ==
    IF f.suffix = ".docx"
    THEN IF "Docx2txtLoader" \in f.fails
         THEN Returned(<<>>, <<"_process_docx", "Docx2txtLoader">>)
         ELSE Returned(<<Doc(f.content, FilePath(f), NoType, NoPage, NoHash)>>,
                       <<"_process_docx", "Docx2txtLoader">>)
    ELSE IF "UnstructuredWordDocumentLoader" \in f.fails
         THEN Returned(<<>>, <<"_process_docx", "UnstructuredWordDocumentLoader">>)
         ELSE Returned(<<Doc(f.alt, FilePath(f), NoType, NoPage, NoHash)>>,
                       <<"_process_docx", "UnstructuredWordDocumentLoader">>)

\* the same chain on the suffix as written
dispatch_case_sensitive(v, f) ==
    CASE f.suffix = ".pdf" ->
             IF v = "services" THEN _process_pdf_services(f) ELSE _process_pdf_legacy(f)
      [] f.suffix \in WordSuffixes -> _process_docx(f)
      [] f.suffix \in TextSuffixes -> _process_text(f)
      [] f.suffix \in ImageSuffixes ->
             IF v = "services" THEN _process_image_services(f) ELSE _process_image_legacy(f)
      [] OTHER -> Returned(<<>>, <<>>)

\* the if/elif chain of process_folder on the lowercased suffix
dispatch(v, f) ==
    CASE Lower(f.suffix) = ".pdf" ->
             IF v = "services" THEN _process_pdf_services(f) ELSE _process_pdf_legacy(f)
      [] Lower(f.suffix) \in WordSuffixes -> _process_docx(f)
      [] Lower(f.suffix) \in TextSuffixes -> _process_text(f)
      [] Lower(f.suffix) \in ImageSuffixes ->
             IF v = "services" THEN _process_image_services(f) ELSE _process_image_legacy(f)
      [] OTHER -> Returned(<<>>, <<>>)

raw_docs_of(v, f) == dispatch(v, f).docs

----------------------------------------------------------------------------
(* RecursiveCharacterTextSplitter(chunk_size, chunk_overlap,               *)
(*                                separators=["\n\n", "\n", " ", ""])       *)

RECURSIVE Join(_, _)
Join(texts, separator) ==
    IF texts = <<>> THEN <<>>
    ELSE IF Len(texts) = 1 THEN texts[1]
    ELSE texts[1] \o separator \o Join(Tail(texts), separator)

SepLen(current_doc, separator, atLeast) ==
    IF Len(current_doc) > atLeast THEN Len(separator) ELSE 0

\* the while loop of _merge_splits that drops leading pieces until the kept
\* tail fits the overlap and the next piece fits the chunk
RECURSIVE Shrink(_, _, _, _)
Shrink(current_doc, total, len, separator) ==
    IF \/ total > chunk_overlap
       \/ (total + len + SepLen(current_doc, separator, 0) > chunk_size /\ total > 0)
    THEN Shrink(Tail(current_doc),
                total - (Len(current_doc[1]) + SepLen(current_doc, separator, 1)),
                len, separator)
    ELSE [current_doc |-> current_doc, total |-> total]

\* _join_docs: join, strip (strip_whitespace=True), None when nothing is left
AppendJoined(docs, current_doc, separator) ==
    IF Strip(Join(current_doc, separator)) = <<>> THEN docs
    ELSE Append(docs, Strip(Join(current_doc, separator)))

\* (the test on the lengths makes TLC evaluate the accumulators at every
\* turn instead of nesting them)
RECURSIVE _merge_splits(_, _, _, _, _)
_merge_splits(splits, separator, docs, current_doc, total) ==
    IF splits = <<>> THEN AppendJoined(docs, current_doc, separator)
    ELSE LET d == Head(splits)
             len == Len(d)
             over == total + len + SepLen(current_doc, separator, 0) > chunk_size
             flush == over /\ Len(current_doc) > 0
             docs1 == IF flush THEN AppendJoined(docs, current_doc, separator) ELSE docs
             kept == IF flush THEN Shrink(current_doc, total, len, separator)
                     ELSE [current_doc |-> current_doc, total |-> total]
             current2 == Append(kept.current_doc, d)
             total2 == kept.total + len + SepLen(current2, separator, 1)
         IN  IF Len(docs1) + Len(current2) >= 0
             THEN _merge_splits(Tail(splits), separator, docs1, current2, total2)
             ELSE docs1

\* list(text): the split on the last separator "", which a text without line
\* breaks and blanks falls through to
Pieces(text) == [i \in DOMAIN text |-> <<text[i]>>]

HasBlank(text) == \E i \in DOMAIN text : text[i] = " "

\* _split_text_with_regex(text, " ", keep_separator=True): the text cut in
\* front of every blank, each blank kept at the start of its piece, empty
\* pieces dropped
RECURSIVE SplitKeep(_, _, _)
SplitKeep(text, pieces, current) ==
    IF text = <<>>
    THEN IF current = <<>> THEN pieces ELSE Append(pieces, current)
    ELSE IF Head(text) = " "
         THEN SplitKeep(Tail(text),
                        IF current = <<>> THEN pieces ELSE Append(pieces, current),
                        <<" ">>)
         ELSE SplitKeep(Tail(text), pieces, Append(current, Head(text)))

\* the same step handing the pieces on one by one
MergeGood_unmerged(good) == good

MergeGood(good) ==
    IF good = <<>> THEN <<>> ELSE _merge_splits(good, <<>>, <<>>, <<>>, 0)

\* the loop of _split_text over the pieces of one level: pieces shorter than
\* chunk_size are collected and merged, a longer piece is split again with
\* the remaining separators ("" after " ") or, at the last level, kept whole
RECURSIVE _split_text(_, _, _, _)
_split_text(splits, level, good, final_chunks) ==
    IF splits = <<>> THEN final_chunks \o MergeGood(good)
    ELSE LET piece == Head(splits)
         IN  IF Len(piece) < chunk_size /\ Len(good) >= 0
             THEN _split_text(Tail(splits), level, Append(good, piece), final_chunks)
             ELSE _split_text(Tail(splits), level, <<>>,
                              final_chunks \o MergeGood(good)
                                  \o (IF level = " "
                                      THEN _split_text(Pieces(piece), "", <<>>, <<>>)
                                      ELSE <<piece>>))

\* split_text on one text: the first separator of the list that occurs in
\* the text is " " when the text has a blank, otherwise ""
split_text(text) ==
    IF HasBlank(text)
    THEN _split_text(SplitKeep(text, <<>>, <<>>), " ", <<>>, <<>>)
    ELSE _split_text(Pieces(text), "", <<>>, <<>>)

\* the same step keeping only the source and the hash of the record
chunks_of_source_only(doc) ==
    LET texts == split_text(doc.page_content)
    IN  [i \in DOMAIN texts |->
            [page_content |-> texts[i],
             metadata |-> [doc.metadata EXCEPT !.type = NoType, !.page = NoPage]]]

\* the same step hashing the text of each chunk
chunks_of_rehash(doc) ==
    LET texts == split_text(doc.page_content)
    IN  [i \in DOMAIN texts |->
            [page_content |-> texts[i],
             metadata |-> [doc.metadata EXCEPT !.file_hash = _compute_hash(texts[i])]]]

\* create_documents: every chunk gets a copy of the metadata of its record
chunks_of(doc) ==
    LET texts == split_text(doc.page_content)
    IN  [i \in DOMAIN texts |-> [page_content |-> texts[i], metadata |-> doc.metadata]]

RECURSIVE split_documents(_)
split_documents(documents) ==
    IF documents = <<>> THEN <<>>
    ELSE chunks_of(Head(documents)) \o split_documents(Tail(documents))

----------------------------------------------------------------------------
(* IngestionEngine.process_folder *)

\* for doc in raw_docs: doc.metadata["file_hash"] = ...; documents.append(doc)
with_hash(raw_docs) ==
    [i \in DOMAIN raw_docs |->
        [raw_docs[i] EXCEPT !.metadata.file_hash = _compute_hash(raw_docs[i].page_content)]]

\* the end of a loop turn, given what the extractor did (r): the hash loop
\* appends the records, or the except branch logs and goes on
file_done(acc, f, r) ==
    IF f.outcome = "raises" \/ r.raised
    THEN [acc EXCEPT !.errors = @ + 1, !.trace = @ \o r.trace]
    ELSE [acc EXCEPT !.documents = @ \o with_hash(r.docs), !.trace = @ \o r.trace]

\* the same without the try: the exception of one file ends the batch
file_done_no_try(acc, f, r) ==
    IF acc.raised \/ f.outcome = "raises" \/ r.raised
    THEN [acc EXCEPT !.raised = TRUE]
    ELSE [acc EXCEPT !.documents = @ \o with_hash(r.docs), !.trace = @ \o r.trace]

\* a loop turn without the try
file_step_no_try(v, acc, f) == file_done_no_try(acc, f, dispatch(v, f))

\* one turn of the loop over the files: the body of the try, or the except
\* branch that logs and goes on to the next file
file_step(v, acc, f) == file_done(acc, f, dispatch(v, f))

RECURSIVE file_loop(_, _, _)
file_loop(v, files, acc) ==
    IF files = <<>> THEN acc
    ELSE file_loop(v, Tail(files), file_step(v, acc, Head(files)))

\* the same method raising on a folder that does not exist
process_folder_raise_if_missing(v, folder) ==
    IF ~folder.exists
    THEN [raised |-> TRUE, docs |-> <<>>, errors |-> 0, trace |-> <<>>]
    ELSE LET acc == file_loop(v, folder.files,
                              [documents |-> <<>>, errors |-> 0, raised |-> FALSE,
                               trace |-> <<>>])
         IN  IF acc.raised
             THEN [raised |-> TRUE, docs |-> <<>>, errors |-> acc.errors, trace |-> acc.trace]
             ELSE IF v = "services" /\ acc.documents = <<>>
                  THEN [raised |-> FALSE, docs |-> <<>>, errors |-> acc.errors,
                        trace |-> acc.trace]
                  ELSE [raised |-> FALSE, docs |-> split_documents(acc.documents),
                        errors |-> acc.errors,
                        trace |-> Append(acc.trace, "split_documents")]

\* trace: the extractor and library calls made, in order, and
\* "split_documents" when the chunker is called
process_folder(v, folder) ==
    IF v = "services" /\ ~folder.exists
    THEN [raised |-> FALSE, docs |-> <<>>, errors |-> 0, trace |-> <<>>]
    ELSE LET acc == file_loop(v, folder.files,
                              [documents |-> <<>>, errors |-> 0, raised |-> FALSE,
                               trace |-> <<>>])
         IN  IF acc.raised
             THEN [raised |-> TRUE, docs |-> <<>>, errors |-> acc.errors, trace |-> acc.trace]
             ELSE IF v = "services" /\ acc.documents = <<>>
                  THEN [raised |-> FALSE, docs |-> <<>>, errors |-> acc.errors,
                        trace |-> acc.trace]
                  ELSE [raised |-> FALSE, docs |-> split_documents(acc.documents),
                        errors |-> acc.errors,
                        trace |-> Append(acc.trace, "split_documents")]

Range(s) == {s[i] : i \in DOMAIN s}

\* Documents a caller hands to add_documents: the chunks process_folder makes
\* of the files of the menu (chunks = process_folder(...); add_documents(chunks)).
DocMenu ==
    UNION {Range(process_folder("services", [exists |-> TRUE, files |-> <<f>>]).docs) :
              f \in FileMenu}

DocLists == SeqsUpTo(DocMenu, MaxBatch)

----------------------------------------------------------------------------
(* The "Ingest Files" handler of streamlit_app.py and app.py *)

\* st.file_uploader(type=[...]): the suffixes the front end lets through
UploadSuffixes(v) ==
    IF v = "services"
    THEN {".pdf", ".png", ".jpg", ".jpeg", ".docx", ".doc", ".txt", ".md", ".json",
          ".yaml", ".xml"}
    ELSE {".pdf", ".txt", ".md", ".png", ".jpg", ".jpeg", ".json", ".yaml", ".docx",
          ".doc"}

\* the files a user picks in the uploader
UploadMenu == {f \in FileMenu : f.suffix \in {".txt", ".md"}}

UploadsOf(v) ==
    {fs \in SeqsUpTo(UploadMenu, MaxUploads) :
        \A i \in DOMAIN fs : Lower(fs[i].suffix) \in UploadSuffixes(v)}

UploadsServices == UploadsOf("services")
UploadsLegacy   == UploadsOf("legacy")
Uploads(v) == IF v = "services" THEN UploadsServices ELSE UploadsLegacy

\* What one press of "Ingest Files" does to the engine and the collection.
\* fault: the store call that fails during this run ("save": writing the
\* uploads to DATA_FOLDER fails before any engine is built).
ingest_files(v, vs, coll, uploaded, fault, written) ==
    IF uploaded = <<>>
    THEN [outcome |-> "warning", vs |-> vs, coll |-> coll, chunks |-> <<>>, writes |-> 0]
    ELSE IF fault = "save"
    THEN [outcome |-> "failed", vs |-> vs, coll |-> coll, chunks |-> <<>>, writes |-> 0]
    ELSE LET retrieval == BoundStore(CollectionName, EmbeddingModelName)
             cleared == clear_effect(v, retrieval, coll, fault)
             processed == process_folder(v, [exists |-> TRUE, files |-> uploaded])
             added == add_documents_effect(cleared.vs, cleared.coll, processed.docs,
                                           fault, written)
         IN  IF cleared.raised
             THEN [outcome |-> "failed", vs |-> cleared.vs, coll |-> cleared.coll,
                   chunks |-> <<>>, writes |-> cleared.writes]
             ELSE IF processed.raised
             THEN [outcome |-> "failed", vs |-> cleared.vs, coll |-> cleared.coll,
                   chunks |-> <<>>, writes |-> cleared.writes]
             ELSE IF added.raised
             THEN [outcome |-> "failed", vs |-> cleared.vs, coll |-> added.coll,
                   chunks |-> processed.docs, writes |-> cleared.writes + added.writes]
             ELSE [outcome |-> "succeeded", vs |-> cleared.vs, coll |-> added.coll,
                   chunks |-> processed.docs, writes |-> cleared.writes + added.writes]

----------------------------------------------------------------------------
(* State machine *)

NoFolder == [exists |-> FALSE, files |-> <<>>]

NoOp ==
    [op |-> "none", outcome |-> "returned", fault |-> "none", error_logged |-> FALSE,
     writes |-> 0, query_text |-> <<>>, top_k |-> 0, threshold |-> 0,
     documents |-> <<>>, folder |-> NoFolder, size_before |-> 0, trace |-> <<>>]

Outcome(raised) == IF raised THEN "raised" ELSE "returned"

Init ==
    /\ variant \in Variants
    /\ vector_store = BoundStore(CollectionName, EmbeddingModelName)
    /\ collection = <<>>
    /\ lastOp = NoOp
    /\ lastResult = <<>>

\* retrieval = RetrievalEngine(persist_directory=DB_FOLDER)
RetrievalEngine_init ==
    /\ vector_store' = BoundStore(CollectionName, EmbeddingModelName)
    /\ lastOp' = [NoOp EXCEPT !.op = "__init__"]
    /\ lastResult' = <<>>
    /\ UNCHANGED <<variant, collection>>

\* retrieval.add_documents(documents)
add_documents ==
    \E documents \in DocLists, fault \in {"none", "add"} :
      \E written \in 0..(IF fault = "add" THEN Len(documents) - 1 ELSE 0) :
        /\ Len(collection) + Len(documents) <= MaxEntries
        /\ fault = "add" => (vector_store.bound /\ documents # <<>>)
        /\ LET r == add_documents_effect(vector_store, collection, documents, fault, written)
           IN  /\ collection' = r.coll
               /\ lastOp' = [NoOp EXCEPT !.op = "add_documents",
                                         !.outcome = Outcome(r.raised),
                                         !.fault = fault,
                                         !.writes = r.writes,
                                         !.documents = documents]
        /\ lastResult' = <<>>
        /\ UNCHANGED <<variant, vector_store>>

\* retrieval.query(query_text, top_k, score_threshold) of services/retrieval.py
query ==
    \E query_text \in QueryTexts, top_k \in TopKs, score_threshold \in Thresholds :
        /\ variant = "services"
        /\ LET r == query_services(vector_store, collection, query_text, top_k,
                                   score_threshold)
           IN  /\ lastResult' = r.docs
               /\ lastOp' = [NoOp EXCEPT !.op = "query",
                                         !.outcome = Outcome(r.raised),
                                         !.query_text = query_text,
                                         !.top_k = top_k,
                                         !.threshold = score_threshold]
        /\ UNCHANGED <<variant, vector_store, collection>>

\* retrieval.query(query_text, top_k) of retrieval.py
query_no_threshold ==
    \E query_text \in QueryTexts, top_k \in TopKs :
        /\ variant = "legacy"
        /\ LET r == query_legacy(vector_store, collection, query_text, top_k)
           IN  /\ lastResult' = r.docs
               /\ lastOp' = [NoOp EXCEPT !.op = "query",
                                         !.outcome = Outcome(r.raised),
                                         !.query_text = query_text,
                                         !.top_k = top_k]
        /\ UNCHANGED <<variant, vector_store, collection>>

\* retrieval.clear()
clear ==
    \E fault \in {"none", "delete", "create"} :
        /\ fault # "none" => vector_store.bound
        /\ LET r == clear_effect(variant, vector_store, collection, fault)
           IN  /\ vector_store' = r.vs
               /\ collection' = r.coll
               /\ lastOp' = [NoOp EXCEPT !.op = "clear",
                                         !.outcome = Outcome(r.raised),
                                         !.fault = fault,
                                         !.error_logged = r.error_logged,
                                         !.writes = r.writes,
                                         !.size_before = Len(collection)]
        /\ lastResult' = <<>>
        /\ UNCHANGED variant

\* the same call storing the chunks it returns
process_folder_call_persists(folders) ==
    \E folder \in folders :
        /\ LET r == process_folder(variant, folder)
           IN  /\ lastResult' = r.docs
               /\ lastOp' = [NoOp EXCEPT !.op = "process_folder",
                                         !.outcome = Outcome(r.raised),
                                         !.error_logged = r.errors > 0,
                                         !.folder = folder,
                                         !.trace = r.trace]
               /\ collection' = Prefix(collection \o r.docs, MaxEntries)
        /\ UNCHANGED <<variant, vector_store>>

\* chunks = ingestion.process_folder(folder_path)
process_folder_call(folders) ==
    \E folder \in folders :
        /\ LET r == process_folder(variant, folder)
           IN  /\ lastResult' = r.docs
               /\ lastOp' = [NoOp EXCEPT !.op = "process_folder",
                                         !.outcome = Outcome(r.raised),
                                         !.error_logged = r.errors > 0,
                                         !.folder = folder,
                                         !.trace = r.trace]
        /\ UNCHANGED <<variant, vector_store, collection>>

\* if st.button("Ingest Files"): ...
IngestFiles ==
    \E uploaded \in Uploads(variant), fault \in {"none", "save", "delete", "create", "add"},
       written \in 0..(MaxEntries - 1) :
        /\ fault # "add" => written = 0
        /\ fault # "none" => uploaded # <<>>
        /\ LET r == ingest_files(variant, vector_store, collection, uploaded, fault,
                                 written)
           IN  /\ fault = "add" => written < Len(r.chunks)
               /\ Len(r.coll) <= MaxEntries
               /\ vector_store' = r.vs
               /\ collection' = r.coll
               /\ lastResult' = r.chunks
               /\ lastOp' = [NoOp EXCEPT !.op = "ingest_files",
                                         !.outcome = r.outcome,
                                         !.fault = fault,
                                         !.writes = r.writes,
                                         !.documents = r.chunks,
                                         !.folder = [exists |-> TRUE, files |-> uploaded]]
        /\ UNCHANGED variant

\* if st.button("Generate"): a fresh engine answers the query with top_k=5
\* (and, in services/retrieval.py, the default threshold)
Generate ==
    \E query_text \in QueryTexts :
        /\ LET retrieval == BoundStore(CollectionName, EmbeddingModelName)
               r == IF variant = "services"
                    THEN query_services(retrieval, collection, query_text, UiTopK,
                                        DefaultThreshold)
                    ELSE query_legacy(retrieval, collection, query_text, UiTopK)
           IN  /\ vector_store' = retrieval
               /\ lastResult' = r.docs
               /\ lastOp' = [NoOp EXCEPT !.op = "generate",
                                         !.outcome = Outcome(r.raised),
                                         !.query_text = query_text,
                                         !.top_k = UiTopK,
                                         !.threshold = DefaultThreshold]
        /\ UNCHANGED <<variant, collection>>

\* The engines driven call by call, as tests/verify.py drives them.
Next ==
    \/ RetrievalEngine_init
    \/ add_documents
    \/ query
    \/ query_no_threshold
    \/ clear
    \/ process_folder_call(ScriptFolders)

Spec == Init /\ [][Next]_vars

\* IngestionEngine.process_folder on every folder of the menu.
NextFolder == process_folder_call(Folders)

SpecFolder == Init /\ [][NextFolder]_vars

\* IngestionEngine.process_folder as a function of the folder: the folder
\* is drawn at the start and the method is applied to it once.
Filled(n) == [i \in 1..n |-> "a"]

IngestMenu ==
    { File("a", ".txt", <<"a">>, "ok"),
      File("long", ".md", <<"a", "b", "a", "b">>, "ok"),
      File("notes", ".xml", <<"b">>, "ok"),
      File("broken", ".txt", <<"b", "b">>, "raises"),
      File("same", ".json", <<"a">>, "ok"),
      File("up", ".TXT", <<"b", "a">>, "ok"),
      File("pad", ".txt", <<" ", "a">>, "ok"),
      File("empty", ".log", <<>>, "ok"),
      FileWith("manual", ".pdf", <<"b", "a">>, <<>>, <<Filled(25), Filled(25)>>, {}) }

IngestFolders ==
    {[exists |-> TRUE, files |-> fs] : fs \in SeqsUpTo(IngestMenu, MaxFiles)}
        \cup {[exists |-> FALSE, files |-> <<>>]}

InitIngest ==
    /\ variant \in Variants
    /\ vector_store = BoundStore(CollectionName, EmbeddingModelName)
    /\ collection = <<>>
    /\ lastOp \in {[NoOp EXCEPT !.op = "folder drawn", !.folder = folder] :
                       folder \in IngestFolders}
    /\ lastResult = <<>>

process_folder_drawn ==
    /\ lastOp.op = "folder drawn"
    /\ LET r == process_folder(variant, lastOp.folder)
       IN  /\ lastResult' = r.docs
           /\ lastOp' = [NoOp EXCEPT !.op = "process_folder",
                                     !.outcome = Outcome(r.raised),
                                     !.error_logged = r.errors > 0,
                                     !.folder = lastOp.folder,
                                     !.trace = r.trace]
    /\ UNCHANGED <<variant, vector_store, collection>>

SpecIngest == InitIngest /\ [][process_folder_drawn]_vars

\* One extractor as a function of the file and of what the libraries do
\* with it: the file is drawn at the start and dispatched once.
PdfPagesMenu ==
    { <<>>,
      <<Filled(OcrFloor - 1)>>,
      <<Filled(OcrFloor)>>,
      <<Filled(OcrFloor + 1)>>,
      <<Filled(25), Filled(24)>>,
      <<Filled(25), Filled(25)>>,
      <<<<" ">> \o Filled(OcrFloor - 1)>> }

ExtractMenu ==
    {FileWith("manual", ".pdf", Join(pages, <<>>), alt, pages, fails) :
        pages \in PdfPagesMenu, alt \in {<<>>, <<"b">>},
        fails \in {{}, {"PyPDFLoader"}, {"to_markdown"}, {"import pdf2image"},
                   {"convert_from_path"}, {"image_to_string"}}}
    \cup
    {FileWith("a", ".txt", content, <<"b">>, <<>>, fails) :
        content \in {<<>>, <<"a">>},
        fails \in {{}, {"TextLoader utf-8"}, {"TextLoader cp1252"},
                   {"TextLoader utf-8", "TextLoader cp1252"},
                   {"TextLoader utf-8", "TextLoader latin-1", "TextLoader cp1252"}}}
    \cup
    {FileWith("photo", ".png", content, alt, <<>>, fails) :
        content \in {<<>>, <<"a">>}, alt \in {<<>>, <<" ">>, <<"b">>},
        fails \in {{}, {"GROQ_API_KEY"}, {"open"}, {"chat.completions"}, {"Image.open"},
                   {"image_to_string"}}}
    \cup
    {FileWith("report", suffix, <<"a">>, <<"b">>, <<>>, fails) :
        suffix \in {".docx", ".DOCX", ".doc"},
        fails \in SUBSET {"Docx2txtLoader", "UnstructuredWordDocumentLoader"}}

InitExtract ==
    /\ variant \in Variants
    /\ vector_store = BoundStore(CollectionName, EmbeddingModelName)
    /\ collection = <<>>
    /\ lastOp \in {[NoOp EXCEPT !.op = "file drawn",
                                 !.folder = [exists |-> TRUE, files |-> <<f>>]] :
                       f \in ExtractMenu}
    /\ lastResult = <<>>

\* raw_docs = self._process_...(file_path)
extract ==
    /\ lastOp.op = "file drawn"
    /\ LET r == dispatch(variant, lastOp.folder.files[1])
       IN  /\ lastResult' = r.docs
           /\ lastOp' = [NoOp EXCEPT !.op = "extract",
                                     !.outcome = Outcome(r.raised),
                                     !.folder = lastOp.folder,
                                     !.trace = r.trace]
    /\ UNCHANGED <<variant, vector_store, collection>>

SpecExtract == InitExtract /\ [][extract]_vars

\* The Streamlit application: its two buttons.
NextApp ==
    \/ IngestFiles
    \/ Generate

SpecApp == Init /\ [][NextApp]_vars

----------------------------------------------------------------------------
(* Properties *)

ServicesQuery == lastOp.op = "query" /\ variant = "services"

\* the candidates the store handed to the query that just ended
Candidates == similarity_search_with_score(collection, lastOp.query_text, lastOp.top_k)

IsPrefixOf(s, t) == Len(s) <= Len(t) /\ SubSeq(t, 1, Len(s)) = s

\* C1: query never returns an entry whose distance is greater than or equal
\* to the threshold (an entry at exactly the threshold is excluded), and when
\* every retrieved candidate is at or beyond the threshold the result is the
\* empty list.
C1_NothingAtOrBeyondThreshold ==
    ServicesQuery =>
        /\ \A i \in DOMAIN lastResult :
               Distance(lastOp.query_text, lastResult[i]) < lastOp.threshold
        /\ (\A i \in DOMAIN Candidates : Candidates[i].score >= lastOp.threshold)
               => lastResult = <<>>

\* a query that kept one candidate and dropped one at exactly the threshold
C1_Witness ==
    /\ ServicesQuery
    /\ lastResult # <<>>
    /\ \E i \in DOMAIN Candidates : Candidates[i].score = lastOp.threshold

\* C2: a failed run of "Ingest Files" leaves the collection with the entries
\* it had before the run.
C2_FailedRunKeepsIndex ==
    [][(lastOp'.op = "ingest_files" /\ lastOp'.outcome = "failed")
           => collection' = collection]_vars

Succeeds(f) == f.outcome # "raises"

RECURSIVE ChunksOfEach(_, _)
ChunksOfEach(v, files) ==
    IF files = <<>> THEN <<>>
    ELSE process_folder(v, [exists |-> TRUE, files |-> <<Head(files)>>]).docs
             \o ChunksOfEach(v, Tail(files))

\* C3: when handling one file raises, process_folder catches it and goes on:
\* no exception reaches the caller and the returned list holds, in order, the
\* chunks of every file that did not fail.
C3_PartialFailure ==
    lastOp.op = "process_folder" =>
        /\ lastOp.outcome = "returned"
        /\ lastResult = ChunksOfEach(variant, SelectSeq(lastOp.folder.files, Succeeds))

\* a folder whose first file fails and whose second file yields chunks
C3_Witness ==
    /\ lastOp.op = "process_folder"
    /\ Len(lastOp.folder.files) >= 2
    /\ ~Succeeds(lastOp.folder.files[1])
    /\ Succeeds(lastOp.folder.files[2])
    /\ lastResult # <<>>
    /\ lastOp.error_logged

\* C4: after clear() returns, the next query returns the empty list.
C4_ClearThenQueryEmpty ==
    [][(lastOp.op = "clear" /\ lastOp.outcome = "returned" /\ lastOp'.op = "query")
           => (lastOp'.outcome = "returned" /\ lastResult' = <<>>)]_vars

\* C5: when the backing store fails during clear(), clear() logs the failure
\* and re-raises it.
C5_ClearFailureReRaised ==
    (variant = "services" /\ lastOp.op = "clear" /\ lastOp.fault \in {"delete", "create"})
        => (lastOp.outcome = "raised" /\ lastOp.error_logged)

KeptCandidates == SelectSeq(Candidates, LAMBDA r : r.score < lastOp.threshold)

\* C6: the list query returns is the top_k nearest entries, nearest first,
\* without those at or beyond the threshold: at most top_k documents, in
\* ascending distance, none of the near candidates dropped.
C6_TopKFilteredInOrder ==
    (ServicesQuery /\ lastOp.outcome = "returned") =>
        /\ Len(lastResult) <= lastOp.top_k
        /\ Len(lastResult) = Len(KeptCandidates)
        /\ \A i \in DOMAIN lastResult : lastResult[i] = KeptCandidates[i].doc
        /\ \A i, j \in DOMAIN lastResult :
               i < j => Distance(lastOp.query_text, lastResult[i])
                            <= Distance(lastOp.query_text, lastResult[j])

\* a query that kept two candidates at different distances and dropped a third
C6_Witness ==
    /\ ServicesQuery
    /\ Len(lastResult) = 2
    /\ Distance(lastOp.query_text, lastResult[1]) < Distance(lastOp.query_text, lastResult[2])
    /\ Len(Candidates) = 3

\* C7: query on a collection without entries returns the empty list and does
\* not raise.
C7_EmptyCollectionEmptyResult ==
    (lastOp.op = "query" /\ vector_store.bound /\ collection = <<>>)
        => (lastOp.outcome = "returned" /\ lastResult = <<>>)

\* a query answered by an empty collection
C7_Witness ==
    /\ lastOp.op = "query"
    /\ vector_store.bound
    /\ collection = <<>>
    /\ lastOp.outcome = "returned"

\* C8: entries are created only by add_documents and removed only by clear;
\* an add_documents of n documents that returns appends exactly n entries and
\* keeps the existing ones; query and process_folder change nothing.
C8_EntryLifecycle ==
    [][/\ (lastOp'.op \in {"query", "process_folder"}) => collection' = collection
       /\ (lastOp'.op = "add_documents" /\ lastOp'.outcome = "returned")
              => /\ Len(collection') = Len(collection) + Len(lastOp'.documents)
                 /\ IsPrefixOf(collection, collection')
                 /\ SubSeq(collection', Len(collection) + 1, Len(collection'))
                        = lastOp'.documents
       /\ Len(collection') > Len(collection) => lastOp'.op = "add_documents"
       /\ ~IsPrefixOf(collection, collection') => lastOp'.op = "clear"]_vars

\* a second add_documents on top of entries that an earlier one left
C8_Witness ==
    /\ lastOp.op = "add_documents"
    /\ lastOp.outcome = "returned"
    /\ lastOp.documents # <<>>
    /\ Len(collection) > Len(lastOp.documents)

\* C9: add_documents with an empty list writes nothing to the backing store
\* and leaves the entries as they were.
C9_EmptyAddIsNoOp ==
    [][(lastOp'.op = "add_documents" /\ lastOp'.documents = <<>>)
           => /\ collection' = collection
              /\ lastOp'.writes = 0
              /\ lastOp'.outcome = "returned"]_vars

\* an empty add_documents on a collection that holds entries
C9_Witness ==
    /\ lastOp.op = "add_documents"
    /\ lastOp.documents = <<>>
    /\ collection # <<>>

FaultFreeClear(op) == op.op = "clear" /\ op.fault = "none"

\* C10: clear() on an empty collection, or right after another clear(), does
\* not raise and leaves an empty collection under the same name and embedding
\* function, on which add_documents and query work (the engine's handle being
\* live and the backing store answering).
C10_ClearIdempotent ==
    [][/\ (/\ FaultFreeClear(lastOp')
           /\ vector_store.bound
           /\ (collection = <<>> \/ lastOp.op = "clear"))
              => /\ lastOp'.outcome = "returned"
                 /\ ~lastOp'.error_logged
                 /\ collection' = <<>>
                 /\ vector_store'.bound
                 /\ vector_store'.collection_name = vector_store.collection_name
                 /\ vector_store'.embedding_function = vector_store.embedding_function
       /\ (/\ FaultFreeClear(lastOp)
           /\ vector_store.bound
           /\ lastOp'.op \in {"add_documents", "query"}
           /\ lastOp'.fault = "none")
              => /\ lastOp'.outcome = "returned"
                 /\ lastOp'.op = "add_documents" => collection' = lastOp'.documents
                 /\ lastOp'.op = "query" => lastResult' = <<>>]_vars

\* a clear() that found the collection already empty and left it usable
C10_Witness ==
    /\ FaultFreeClear(lastOp)
    /\ lastOp.size_before = 0
    /\ lastOp.outcome = "returned"
    /\ collection = <<>>
    /\ vector_store = BoundStore(CollectionName, EmbeddingModelName)

InTrace(call) == \E i \in DOMAIN lastOp.trace : lastOp.trace[i] = call

ExtractorNames ==
    {"_process_pdf", "_pdf_ocr_fallback", "_process_text", "_process_image", "_process_docx"}

\* C11 as stated: process_folder on a folder that does not exist returns the
\* empty list without raising and without calling any extractor or the
\* chunker.
C11_MissingFolderNoCalls ==
    (lastOp.op = "process_folder" /\ ~lastOp.folder.exists)
        => /\ lastOp.outcome = "returned"
           /\ lastResult = <<>>
           /\ lastOp.trace = <<>>

\* C11 as amended: process_folder on a folder that does not exist returns the
\* empty list without raising and without calling any extractor; the version
\* under services/ does not call the chunker either, the flat version hands
\* the chunker an empty list.
C11_MissingFolderNoExtractor ==
    (lastOp.op = "process_folder" /\ ~lastOp.folder.exists)
        => /\ lastOp.outcome = "returned"
           /\ lastResult = <<>>
           /\ \A call \in ExtractorNames : ~InTrace(call)
           /\ variant = "services" => lastOp.trace = <<>>
           /\ variant = "legacy" => lastOp.trace = <<"split_documents">>

\* a missing folder has been processed
C11_Witness ==
    /\ lastOp.op = "process_folder"
    /\ ~lastOp.folder.exists
    /\ lastResult = <<>>

Supported(f) ==
    Lower(f.suffix) \in {".pdf"} \cup WordSuffixes \cup TextSuffixes \cup ImageSuffixes

ExtractorOf(f) ==
    CASE Lower(f.suffix) = ".pdf" -> "_process_pdf"
      [] Lower(f.suffix) \in WordSuffixes -> "_process_docx"
      [] Lower(f.suffix) \in TextSuffixes -> "_process_text"
      [] Lower(f.suffix) \in ImageSuffixes -> "_process_image"

IsDispatched(call) ==
    call \in {"_process_pdf", "_process_docx", "_process_text", "_process_image"}

SupportedAndSucceeds(f) == Supported(f) /\ Succeeds(f)

\* C12: process_folder picks the extractor by the lowercased extension and
\* skips a file with any other extension without an error: the extractors
\* called are, in order, those of the supported files; nothing is logged
\* unless a file fails; a folder of unsupported files gives the empty list;
\* a mixed folder gives exactly the chunks of its supported files.
C12_DispatchOnLowercasedExtension ==
    lastOp.op = "process_folder" =>
        LET files == lastOp.folder.files
            supported == SelectSeq(files, Supported)
        IN  /\ lastOp.outcome = "returned"
            /\ SelectSeq(lastOp.trace, IsDispatched)
                   = [i \in DOMAIN supported |-> ExtractorOf(supported[i])]
            /\ (\A i \in DOMAIN files : Succeeds(files[i])) => ~lastOp.error_logged
            /\ supported = <<>> => lastResult = <<>>
            /\ lastResult = ChunksOfEach(variant, SelectSeq(files, SupportedAndSucceeds))
            /\ \A i \in DOMAIN lastResult :
                   \E j \in DOMAIN supported :
                       lastResult[i].metadata.source \in {FilePath(supported[j]),
                                                          Basename(supported[j])}

\* a folder holding an unsupported file and a supported one whose extension
\* is written in upper case, with the chunks of the latter returned
C12_Witness ==
    /\ lastOp.op = "process_folder"
    /\ \E i, j \in DOMAIN lastOp.folder.files :
           /\ ~Supported(lastOp.folder.files[i])
           /\ lastOp.folder.files[j].suffix = ".TXT"
    /\ \E i \in DOMAIN lastResult :
           lastResult[i].metadata.source = <<DATA_FOLDER, "up", ".TXT">>

\* the records the extractors yield for the files, in order, before hashing
RECURSIVE RawRecords(_, _)
RawRecords(v, files) ==
    IF files = <<>> THEN <<>>
    ELSE (IF Succeeds(Head(files)) THEN raw_docs_of(v, Head(files)) ELSE <<>>)
             \o RawRecords(v, Tail(files))

SameRecord(chunk, record) ==
    /\ chunk.metadata.source = record.metadata.source
    /\ chunk.metadata.page = record.metadata.page
    /\ chunk.metadata.type = record.metadata.type

\* C13: every chunk process_folder returns carries the content hash of the
\* whole record it was cut from, the digest of that record's full content, so
\* that chunks of records with equal content carry equal hashes.
C13_HashOfWholeRecord ==
    lastOp.op = "process_folder" =>
        LET records == RawRecords(variant, lastOp.folder.files)
        IN  /\ \A i \in DOMAIN lastResult :
                   /\ lastResult[i].metadata.file_hash # NoHash
                   /\ \E j \in DOMAIN records :
                          /\ SameRecord(lastResult[i], records[j])
                          /\ lastResult[i].metadata.file_hash
                                 = _compute_hash(records[j].page_content)
            /\ \A i, k \in DOMAIN lastResult :
                   (\E j, l \in DOMAIN records :
                        /\ SameRecord(lastResult[i], records[j])
                        /\ SameRecord(lastResult[k], records[l])
                        /\ records[j].page_content = records[l].page_content)
                       => lastResult[i].metadata.file_hash = lastResult[k].metadata.file_hash

\* a chunk whose hash is not the digest of its own text, and two chunks of
\* different files with equal content and equal hashes
C13_Witness ==
    /\ lastOp.op = "process_folder"
    /\ \E i \in DOMAIN lastResult :
           lastResult[i].metadata.file_hash # _compute_hash(lastResult[i].page_content)
    /\ \E i, k \in DOMAIN lastResult :
           /\ lastResult[i].metadata.source # lastResult[k].metadata.source
           /\ lastResult[i].metadata.file_hash = lastResult[k].metadata.file_hash

\* C14: process_folder leaves the vector index as it was: whatever the
\* extractors do, the collection and the engine's handle are the same after
\* the call as before it.
C14_ProcessFolderKeepsIndex ==
    [][lastOp'.op = "process_folder"
           => /\ collection' = collection
              /\ vector_store' = vector_store]_vars

\* process_folder has returned chunks while the collection held other entries
C14_Witness ==
    /\ lastOp.op = "process_folder"
    /\ lastResult # <<>>
    /\ collection # <<>>
    /\ \E i \in DOMAIN lastResult : \A j \in DOMAIN collection : collection[j] # lastResult[i]

\* C15: after a run of "Ingest Files" that reports success, the collection
\* holds exactly the chunks process_folder produced for the files of that
\* run, and nothing of an earlier run.
C15_SuccessfulRunReplacesIndex ==
    (lastOp.op = "ingest_files" /\ lastOp.outcome = "succeeded")
        => collection = lastOp.documents

Short(record) == Len(record.page_content) < chunk_size

ShortAndTrimmed(record) ==
    /\ Short(record)
    /\ record.page_content # <<>>
    /\ Strip(record.page_content) = record.page_content

OneChunkEach(records) ==
    /\ Len(lastResult) = Len(records)
    /\ \A j \in DOMAIN records :
           j \in DOMAIN lastResult => lastResult[j].page_content = records[j].page_content

\* C16 as stated: a record whose content is shorter than chunk_size comes
\* out of the chunker as exactly one chunk with the same content.
C16_ShortRecordOneChunk ==
    lastOp.op = "process_folder" =>
        LET records == RawRecords(variant, lastOp.folder.files)
        IN  (\A j \in DOMAIN records : Short(records[j])) => OneChunkEach(records)

\* C16 as amended: a record whose content is shorter than chunk_size, is not
\* empty and neither starts nor ends with whitespace comes out of the
\* chunker as exactly one chunk with the same content.
C16_ShortTrimmedRecordOneChunk ==
    lastOp.op = "process_folder" =>
        LET records == RawRecords(variant, lastOp.folder.files)
        IN  (\A j \in DOMAIN records : ShortAndTrimmed(records[j])) => OneChunkEach(records)

\* two short records, one of them of more than one character, each returned
\* as one chunk
C16_Witness ==
    /\ lastOp.op = "process_folder"
    /\ LET records == RawRecords(variant, lastOp.folder.files)
       IN  /\ Len(records) >= 2
           /\ \A j \in DOMAIN records : ShortAndTrimmed(records[j])
           /\ \E j \in DOMAIN records : Len(records[j].page_content) > 1
    /\ Len(lastResult) >= 2

InheritsMetadata(chunk, records) ==
    \E j \in DOMAIN records :
        chunk.metadata
            = [records[j].metadata EXCEPT !.file_hash = _compute_hash(records[j].page_content)]

ExtractedFile == lastOp.folder.files[1]

\* the last library call the extractor made is one that fails on the file
LastCallFailed ==
    /\ lastOp.trace # <<>>
    /\ lastOp.trace[Len(lastOp.trace)] \in ExtractedFile.fails

\* C19: no extractor lets an exception escape; when the loader, OCR or
\* vision call it ends on fails, it returns the empty list.
C19_ExtractorsNeverRaise ==
    lastOp.op = "extract" =>
        /\ lastOp.outcome = "returned"
        /\ LastCallFailed => lastResult = <<>>

\* an extractor whose library call failed has returned the empty list
C19_Witness ==
    /\ lastOp.op = "extract"
    /\ LastCallFailed
    /\ lastOp.outcome = "returned"
    /\ lastResult = <<>>

RECURSIVE StrippedLength(_)
StrippedLength(pages) ==
    IF pages = <<>> THEN 0 ELSE Len(Strip(Head(pages))) + StrippedLength(Tail(pages))

Calls(call) == Len(SelectSeq(lastOp.trace, LAMBDA c : c = call))

LegacyPdfRead ==
    /\ lastOp.op = "extract"
    /\ variant = "legacy"
    /\ Lower(ExtractedFile.suffix) = ".pdf"
    /\ "PyPDFLoader" \notin ExtractedFile.fails

\* C20: the PDF extractor of ingestion.py calls the OCR fallback exactly once
\* when the pages it read hold fewer than 50 characters of text in total, and
\* then returns what the fallback returns: one record tagged scanned_pdf, or
\* nothing when pdf2image is not installed or the OCR fails; at 50 characters
\* or more it returns the pages as read and never calls OCR.
C20_OcrFallbackBelowFloor ==
    LegacyPdfRead =>
        IF StrippedLength(ExtractedFile.pages) < OcrFloor
        THEN /\ Calls("_pdf_ocr_fallback") = 1
             /\ \/ lastResult = <<>>
                \/ /\ Len(lastResult) = 1
                   /\ lastResult[1].metadata.type = "scanned_pdf"
             /\ "import pdf2image" \in ExtractedFile.fails => lastResult = <<>>
             /\ ExtractedFile.fails = {} => lastResult # <<>>
        ELSE /\ Calls("_pdf_ocr_fallback") = 0
             /\ Calls("image_to_string") = 0
             /\ Len(lastResult) = Len(ExtractedFile.pages)
             /\ \A i \in DOMAIN lastResult :
                    /\ lastResult[i].page_content = ExtractedFile.pages[i]
                    /\ lastResult[i].metadata.type = NoType

\* a PDF one character below the floor once its page is stripped, turned into
\* one scanned_pdf record by the fallback
C20_Witness ==
    /\ LegacyPdfRead
    /\ StrippedLength(ExtractedFile.pages) = OcrFloor - 1
    /\ Len(ExtractedFile.pages[1]) = OcrFloor
    /\ Calls("_pdf_ocr_fallback") = 1
    /\ Len(lastResult) = 1
    /\ lastResult[1].metadata.type = "scanned_pdf"

IsImage(f) == Lower(f.suffix) \in ImageSuffixes

\* the fallback ran to its end on the file and read nothing: OCR gave no
\* text for any page of a scanned PDF, or OCR or the vision model gave no
\* text or description for an image
FallbackYieldedNothing ==
    /\ lastOp.op = "extract"
    /\ ExtractedFile.fails = {}
    /\ \/ /\ variant = "legacy"
          /\ Lower(ExtractedFile.suffix) = ".pdf"
          /\ Calls("_pdf_ocr_fallback") = 1
          /\ Strip(ExtractedFile.alt) = <<>>
       \/ /\ variant = "legacy"
          /\ IsImage(ExtractedFile)
          /\ Strip(ExtractedFile.alt) = <<>>
       \/ /\ variant = "services"
          /\ IsImage(ExtractedFile)
          /\ Strip(ExtractedFile.content) = <<>>

\* C21: when the fallback of a degraded extraction yields nothing either, the
\* file contributes no record, hence no chunk, and no error is raised.
C21_NothingFromEmptyFallback ==
    FallbackYieldedNothing =>
        /\ lastOp.outcome = "returned"
        /\ lastResult = <<>>

IsText(f) == Lower(f.suffix) \in TextSuffixes

LoaderCallsInOrder == <<"TextLoader utf-8", "TextLoader latin-1", "TextLoader cp1252">>

\* the TextLoader calls the extractor made, in order
TextLoaderCalls == SelectSeq(lastOp.trace, LAMBDA c : c # "_process_text")

TextRead(n) == IF n = 1 THEN ExtractedFile.content ELSE ExtractedFile.alt

\* C22: the text extractor tries utf-8, latin-1, cp1252 in this order, stops
\* at the first encoding whose load succeeds and returns that load as one
\* record; it returns the empty list only when all three have failed.
C22_FirstEncodingThatLoads ==
    (lastOp.op = "extract" /\ IsText(ExtractedFile)) =>
        LET tried == TextLoaderCalls
            n == Len(tried)
        IN  /\ lastOp.outcome = "returned"
            /\ n \in 1..3
            /\ tried = SubSeq(LoaderCallsInOrder, 1, n)
            /\ \A i \in 1..(n - 1) : tried[i] \in ExtractedFile.fails
            /\ IF tried[n] \in ExtractedFile.fails
               THEN n = 3 /\ lastResult = <<>>
               ELSE /\ Len(lastResult) = 1
                    /\ lastResult[1].page_content = TextRead(n)
                    /\ lastResult[1].metadata.source = FilePath(ExtractedFile)

\* utf-8 failed, latin-1 loaded the file, and cp1252, which would have failed,
\* was not tried
C22_Witness ==
    /\ lastOp.op = "extract"
    /\ IsText(ExtractedFile)
    /\ ExtractedFile.fails = {"TextLoader utf-8", "TextLoader cp1252"}
    /\ TextLoaderCalls = <<"TextLoader utf-8", "TextLoader latin-1">>
    /\ Len(lastResult) = 1
    /\ lastResult[1].page_content = ExtractedFile.alt

\* C23: every record an image extractor produces, by local OCR or by the
\* vision model, has the base name of the file as its source, not the path.
C23_ImageSourceIsBasename ==
    (lastOp.op = "extract" /\ IsImage(ExtractedFile)) =>
        \A i \in DOMAIN lastResult :
            lastResult[i].metadata.source = Basename(ExtractedFile)

IsWord(f) == Lower(f.suffix) \in WordSuffixes

\* C24: the Word extractor uses the fast loader (Docx2txtLoader) for a file
\* dispatched as .docx, and the generic loader (UnstructuredWordDocumentLoader)
\* for a .doc file and whenever the fast loader fails; it returns the empty
\* list only when the generic loader fails too.
C24_GenericLoaderAfterFastFails ==
    (lastOp.op = "extract" /\ IsWord(ExtractedFile)) =>
        /\ lastOp.outcome = "returned"
        /\ Lower(ExtractedFile.suffix) = ".docx" => Calls("Docx2txtLoader") = 1
        /\ Lower(ExtractedFile.suffix) = ".doc" =>
               /\ Calls("Docx2txtLoader") = 0
               /\ Calls("UnstructuredWordDocumentLoader") = 1
        /\ (Calls("Docx2txtLoader") = 1 /\ "Docx2txtLoader" \in ExtractedFile.fails)
               => Calls("UnstructuredWordDocumentLoader") = 1
        /\ lastResult = <<>> => "UnstructuredWordDocumentLoader" \in ExtractedFile.fails

============================================================================
